---- MODULE Spec2Model ----
(***************************************************************************)
(* Model of the OpenLP MCP plugin's cross-thread call bridge and of the    *)
(* slots behind it (src/src/tools.py, src/src/worker.py,                   *)
(* src/src/conversion.py, src/src/url_utils.py, src/src/mcpplugin.py).     *)
(*                                                                         *)
(* Three execution contexts:                                               *)
(*   - the server thread, which runs the tool functions of tools.py        *)
(*     (emit a *_requested signal, then wait_for_result[_long]);           *)
(*   - the main (GUI) thread, which owns MCPWorker: the *_requested        *)
(*     signals are emitted from another thread, so Qt queues them and the  *)
(*     slots run one at a time from the main thread's event queue;         *)
(*   - the conversion QThread created by _start_powerpoint_conversion,     *)
(*     which runs ConversionWorker.convert_powerpoint as the source        *)
(*     documents it ("Convert PowerPoint in background thread") and        *)
(*     reports through conversion_completed / conversion_failed, queued    *)
(*     to the main thread.                                                 *)
(*                                                                         *)
(* Time is a clock of TickSeconds per Tick, kept per running timer and     *)
(* saturating at the timer's deadline.                                     *)
(***************************************************************************)
EXTENDS Integers, Sequences, FiniteSets, TLC

VARIABLES
    callerPc,                 \* server thread: "idle", "emitted", "waiting"
    cur,                      \* the tool call in progress (NoCall when idle)
    waited,                   \* seconds spent in result_ready.wait(timeout)
    nextId,                   \* number of the next tool call
    current_result,           \* MCPWorker.current_result
    result_ready,             \* MCPWorker.result_ready (threading.Event flag)
    mainQueue,                \* event queue of the main thread (FIFO)
    mainPc,                   \* "loop", "start_wait", "emit", "cleanup_wait"
    mainCtx,                  \* request or callback whose handler is in progress
    conversion_thread,        \* MCPWorker.conversion_thread (0 is None)
    conversion_worker,        \* MCPWorker.conversion_worker (0 is None)
    pending_conversion_title, \* MCPWorker.pending_conversion_title (0 is None)
    thread,                   \* state of the QThread created for each call
    quitReq,                  \* QThread.quit() has been called on it
    job,                      \* what the thread's started-lambda runs with
    toolTime,                 \* seconds the external tool has been running
    service,                  \* service_manager.service_items
    live,                     \* position of the live service item (0 is none)
    other,                    \* a second server thread's tool call (TwoCallerSpec)
    theme_list,               \* theme_manager.get_theme_names()
    global_theme,             \* theme_manager.global_theme
    service_theme,            \* service_manager.service_theme
    downloads,                \* files in <tempdir>/openlp_mcp_downloads
    last,                     \* history: the slot run last, what it emitted and
                              \* the path its file_path resolved to
    sigCount,                 \* history: _handle_result calls per tool call
    returned,                 \* history: what each tool call returned
    superseded                \* history: jobs replaced before their callback ran

vars == <<callerPc, cur, waited, nextId, current_result, result_ready,
          mainQueue, mainPc, mainCtx, conversion_thread, conversion_worker,
          pending_conversion_title, thread, quitReq, job, toolTime, service,
          live, other, theme_list, global_theme, service_theme, downloads, last,
          sigCount, returned, superseded>>

hostVars == <<theme_list, global_theme, service_theme, downloads, last>>

(***************************************************************************)
(* Bounds of the model and constants of the program.                       *)
(***************************************************************************)
MaxSubmits == 2

ShortTimeout == 10
LongTimeout == 90
LibreOfficeTimeout == 90
TickSeconds == ShortTimeout

Ids == 1..MaxSubmits
None == [id |-> 0, kind |-> "None"]

Min(a, b) == IF a < b THEN a ELSE b

(***************************************************************************)
(* Locators: the file_path argument of load_service and add_media.         *)
(*   scheme  "" for a local path, else the URL scheme                      *)
(*   dir     "" for a path the caller names, "openlp_mcp_downloads" for a  *)
(*           file of the download directory                                *)
(*   stem    the (URL) path's file name without its extension, "" if the   *)
(*           path names no file; every URL of the model has host "host"    *)
(*   ext     extension of the (URL) path's file name as it is written,     *)
(*           "" if the name has no dot                                     *)
(*   query   the URL carries a ?query after the path                       *)
(*   ctype   Content-Type header the HEAD probe returns, "" if none        *)
(*   present the local file exists / the download succeeds                 *)
(***************************************************************************)
Loc(scheme, stem, ext, query, ctype, present) ==
    [scheme |-> scheme, dir |-> "", stem |-> stem, ext |-> ext, query |-> query,
     ctype |-> ctype, present |-> present]

\* The empty string, and the file_path of an operation that takes none.
NoLocator == Loc("", "", "", FALSE, "", FALSE)

pptx_content_type ==
    "application/vnd.openxmlformats-officedocument.presentationml.presentation"

Locators ==
    { Loc("",     "file",  ".JPG",  FALSE, "",                TRUE),
      Loc("",     "file",  ".pptx", FALSE, "",                TRUE),
      Loc("",     "file",  ".pptx", FALSE, "",                FALSE),
      Loc("",     "file",  ".pdf",  FALSE, "",                TRUE),
      Loc("",     "file",  ".xyz",  FALSE, "",                TRUE),
      Loc("http", "deck",  "",      FALSE, pptx_content_type, TRUE),
      Loc("http", "deck",  ".pptx", TRUE,  "",                TRUE),
      Loc("http", "photo", "",      TRUE,  "image/jpeg",      TRUE),
      Loc("",     "file",  ".mp4",  FALSE, "",                TRUE),
      Loc("",     "file",  ".odp",  FALSE, "",                TRUE),
      Loc("http", "photo", ".jpg",  FALSE, "",                FALSE),
      NoLocator }

\* Locators of service files, for load_service: a local file and a failing fetch.
ServiceLocators ==
    { Loc("",     "file", ".osz", FALSE, "", TRUE),
      Loc("http", "file", ".osz", FALSE, "", FALSE) }

is_url(loc) == loc.scheme \in {"http", "https", "ftp", "ftps"}

\* str.lower() on the strings of the model.
lower(s) ==
    CASE s = ".JPG" -> ".jpg"
      [] s = "NONE" -> "none"
      [] s = ".Pdf" -> ".pdf"
      [] s = ".PPTX" -> ".pptx"
      [] OTHER -> s

\* Path(file_path).suffix.lower() taken on the raw argument (tools.py:108):
\* on a URL the suffix runs to the end of the string, query included.
RawSuffix(loc) ==
    IF is_url(loc) /\ loc.query /\ loc.ext # "" THEN "ext?query" ELSE lower(loc.ext)

\* get_content_type_from_url: the lower-cased Content-Type header of a HEAD
\* request, None ("") when the request fails or requests is not installed.
get_content_type_from_url(loc) == loc.ctype

\* content_type.split(';')[0].strip() on the content types of the model.
StripParameters(content_type) ==
    IF content_type = "image/jpeg; charset=binary" THEN "image/jpeg" ELSE content_type

\* The entries of content_type_map the model uses.
content_type_map ==
    [ct \in {"image/jpeg", "image/png", "video/mp4", "audio/mpeg", "application/pdf",
             pptx_content_type, "application/zip"} |->
        CASE ct = "image/jpeg" -> ".jpg"
          [] ct = "image/png" -> ".png"
          [] ct = "video/mp4" -> ".mp4"
          [] ct = "audio/mpeg" -> ".mp3"
          [] ct = "application/pdf" -> ".pdf"
          [] ct = pptx_content_type -> ".pptx"
          [] OTHER -> ".osz"]

get_extension_from_content_type(content_type) ==
    IF content_type = "" THEN ".tmp"
    ELSE LET ct == StripParameters(content_type)
         IN  IF ct \in DOMAIN content_type_map THEN content_type_map[ct] ELSE ".tmp"

\* guess_extension_from_url_patterns: the URL text of the model is the host
\* "host" and the file name, so a pattern is found in the stem or nowhere.
guess_extension_from_url_patterns(loc) ==
    CASE loc.stem \in {"image", "photo", "pic", "img"} -> ".jpg"
      [] loc.stem \in {"video", "vid", "movie"} -> ".mp4"
      [] loc.stem \in {"audio", "sound", "music"} -> ".mp3"
      [] loc.stem \in {"presentation", "slide", "ppt"} -> ".pdf"
      [] loc.stem \in {"service", "osz"} -> ".osz"
      [] OTHER -> ".tmp"

\* The base name get_filename_from_url generates for a URL that names no file.
GeneratedBaseName(extension) ==
    CASE extension \in {".jpg", ".png", ".gif", ".bmp", ".webp", ".svg"} -> "image_hash"
      [] extension \in {".mp4", ".avi", ".mov", ".mkv", ".wmv", ".flv", ".webm"} -> "video_hash"
      [] extension \in {".mp3", ".wav", ".ogg", ".flac", ".aac", ".m4a", ".wma"} -> "audio_hash"
      [] extension \in {".pptx", ".ppt", ".pdf"} -> "presentation_hash"
      [] extension = ".osz" -> "service_hash"
      [] OTHER -> "download_hash"

\* Variant of get_filename_from_url that guesses from the URL before it looks
\* at the content type.
get_filename_guessing_first(loc) ==
    IF loc.ext # ""
    THEN [stem |-> loc.stem, ext |-> loc.ext]
    ELSE LET guessed == guess_extension_from_url_patterns(loc)
             extension == IF guessed = ".tmp"
                          THEN get_extension_from_content_type(get_content_type_from_url(loc))
                          ELSE guessed
         IN  [stem |-> IF loc.stem # "" THEN loc.stem ELSE GeneratedBaseName(extension),
              ext |-> extension]

\* get_filename_from_url: the name in the URL path when it has an extension,
\* else that name (or a generated one) with the extension of the content
\* type, or the guessed one when the content type yields ".tmp".
get_filename_from_url(loc) ==
    IF loc.ext # ""
    THEN [stem |-> loc.stem, ext |-> loc.ext]
    ELSE LET content_type == get_content_type_from_url(loc)
             detected == get_extension_from_content_type(content_type)
             extension == IF detected = ".tmp"
                          THEN guess_extension_from_url_patterns(loc)
                          ELSE detected
         IN  [stem |-> IF loc.stem # "" THEN loc.stem ELSE GeneratedBaseName(extension),
              ext |-> extension]

\* temp_dir / filename: the file a download writes.
DownloadPath(filename) ==
    [scheme |-> "", dir |-> "openlp_mcp_downloads", stem |-> filename.stem,
     ext |-> filename.ext, query |-> FALSE, ctype |-> "", present |-> TRUE]

\* Variant of resolve_file_path that copies a local file into the download
\* directory as well.
resolve_copying_local(loc) ==
    IF loc = NoLocator \/ ~loc.present
    THEN [raised |-> TRUE, path |-> NoLocator, fetched |-> FALSE]
    ELSE IF is_url(loc)
         THEN [raised |-> FALSE, path |-> DownloadPath(get_filename_from_url(loc)),
               fetched |-> TRUE]
         ELSE [raised |-> FALSE, path |-> DownloadPath(loc), fetched |-> TRUE]

\* resolve_file_path: raises on the empty string, on a failed download (the
\* partial file is unlinked) and on a missing local file; returns the
\* downloaded file for a URL and the path itself for a local file.
resolve_file_path(loc) ==
    IF loc = NoLocator
    THEN [raised |-> TRUE, path |-> NoLocator, fetched |-> FALSE]
    ELSE IF is_url(loc)
         THEN IF loc.present
              THEN [raised |-> FALSE, path |-> DownloadPath(get_filename_from_url(loc)),
                    fetched |-> TRUE]
              ELSE [raised |-> TRUE, path |-> NoLocator, fetched |-> FALSE]
         ELSE IF loc.present
              THEN [raised |-> FALSE, path |-> loc, fetched |-> FALSE]
              ELSE [raised |-> TRUE, path |-> NoLocator, fetched |-> FALSE]

\* resolved_path.suffix.lower()
Suffix(path) == lower(path.ext)

\* The download directory after resolve_file_path(loc).
Fetched(loc, files) ==
    LET resolved == resolve_file_path(loc)
    IN  IF resolved.fetched THEN files \cup {resolved.path} ELSE files

image_extensions == {".jpg", ".jpeg", ".png", ".bmp", ".gif", ".tiff", ".tif", ".webp", ".svg"}
video_extensions == {".mp4", ".avi", ".mov", ".mkv", ".wmv", ".flv", ".webm", ".m4v", ".3gp"}
audio_extensions == {".mp3", ".wav", ".ogg", ".flac", ".aac", ".m4a", ".wma"}
presentation_extensions == {".pdf", ".pptx", ".ppt", ".pps", ".ppsx", ".odp"}
powerpoint_extensions == {".pptx", ".ppt", ".pps", ".ppsx"}

(***************************************************************************)
(* ConversionWorker (conversion.py).  env describes what the external      *)
(* collaborators do for one job:                                           *)
(*   lo  "ok"        soffice exits 0 and the PDF exists                    *)
(*       "ok_nofile" soffice exits 0 and no PDF exists                     *)
(*       "nonzero"   soffice exits non-zero                                *)
(*       "missing"   no soffice command can be run                         *)
(*       "timeout"   subprocess.run raises TimeoutExpired                  *)
(*   py  "ok"        python-pptx writes the PDF                            *)
(*       "nofile"    c.save() returns and no PDF exists                    *)
(*       "importerror", "exception"                                        *)
(* A conversion returns the marker of an existing PDF, or "None".          *)
(***************************************************************************)
ConversionEnvs ==
    { [lo |-> "ok", py |-> "ok"] } \cup
    [lo : {"ok_nofile", "nonzero", "missing", "timeout"},
     py : {"ok", "nofile", "importerror", "exception"}]

NoEnv == [lo |-> "", py |-> ""]

\* Variant of _convert_with_libreoffice that takes exit code 0 for success.
convert_trusting_exit_code(env) ==
    IF env.lo \in {"ok", "ok_nofile"} THEN "libreoffice.pdf" ELSE "None"

convert_with_libreoffice(env) ==
    IF env.lo = "ok" THEN "libreoffice.pdf" ELSE "None"

convert_with_python_pptx(env) ==
    IF env.py = "ok" THEN "python.pdf" ELSE "None"

\* Variant of _convert_ppt_to_pdf with no fallback.
convert_without_fallback(env) == convert_with_libreoffice(env)

convert_ppt_to_pdf(env) ==
    LET libreoffice_result == convert_with_libreoffice(env)
    IN  IF libreoffice_result # "None"
        THEN libreoffice_result
        ELSE convert_with_python_pptx(env)

\* The signal convert_powerpoint emits: exactly one per call.
convert_powerpoint(env) ==
    IF convert_ppt_to_pdf(env) # "None" THEN "completed" ELSE "failed"

\* Seconds the LibreOffice subprocess has run before convert_powerpoint can
\* emit: subprocess.run(..., timeout=90) raises only once the timeout elapsed.
ToolDeadline(env) == IF env.lo = "timeout" THEN LibreOfficeTimeout ELSE 0

(***************************************************************************)
(* Events of the main thread's queue and results of the result channel.    *)
(***************************************************************************)
\* The item_index arguments tried for go_live_with_item: the first item and an
\* index outside every service of the model.
GoLiveIndexes == {0, 99}

Ops == {"create_service", "load_service", "save_service", "get_service_items", "add_media"}

\* The file_path arguments tried for an operation.
LocatorsOf(op) ==
    CASE op = "add_media" -> Locators
      [] op = "load_service" -> ServiceLocators
      [] OTHER -> {NoLocator}

Req(i, op, loc, fault) ==
    [t |-> "req", id |-> i, op |-> op, loc |-> loc, fault |-> fault, title |-> 0,
     index |-> 0, pdf_path |-> ""]

Callback(kind, j, title) ==
    [t |-> kind, id |-> j, op |-> "", loc |-> NoLocator, fault |-> FALSE, title |-> title,
     index |-> 0, pdf_path |-> ""]

\* The tool call in progress on the server thread: its arguments and the
\* wait it chose.
Call(i, op, loc, long) == [id |-> i, op |-> op, loc |-> loc, long |-> long]
NoCall == Call(0, "", NoLocator, FALSE)

NoReq == [t |-> "", id |-> 0, op |-> "", loc |-> NoLocator, fault |-> FALSE, title |-> 0,
          index |-> 0, pdf_path |-> ""]

Result(i, kind) == [id |-> i, kind |-> kind]
\* raise TimeoutError(message)
TimeoutError(message) == [id |-> 0, kind |-> message]

NoJob == [path |-> 0, worker |-> 0, title |-> 0, env |-> NoEnv]

isRunning(j) == j # 0 /\ thread[j] \in {"started", "converting", "evloop"}

(***************************************************************************)
(* Handlers of MCPWorker.  What runs inside a try block is a record        *)
(*   service  the service after the block                                  *)
(*   emits    the kinds of the results passed to operation_completed.emit  *)
(*   raised   an exception left the block                                  *)
(* fault says that the handler's collaborator (service manager, plugin     *)
(* manager, QThread) raises when called.                                   *)
(***************************************************************************)
Raise(svc) == [service |-> svc, emits |-> <<>>, raised |-> TRUE]
Emit(svc, kind) == [service |-> svc, emits |-> <<kind>>, raised |-> FALSE]

\* Variant of Try with no except clause: the exception leaves the slot.
TryPropagates(body) == body

\* try: body / except Exception as e: self.operation_completed.emit(error)
Try(body) ==
    IF body.raised
    THEN [service |-> body.service, emits |-> Append(body.emits, "error"), raised |-> FALSE]
    ELSE body

\* Python's None as a theme name: no theme of the item's own.
NoTheme == "<None>"

Item(i, kind, title) == [id |-> i, kind |-> kind, title |-> title, theme |-> NoTheme]

LoadedService == <<Item(0, "loaded", 0)>>

create_service(req, svc) ==
    Try(IF req.fault THEN Raise(svc) ELSE Emit(<<>>, "ok"))

load_service(req, svc) ==
    Try(IF resolve_file_path(req.loc).raised \/ req.fault
        THEN Raise(svc)
        ELSE Emit(LoadedService, "ok"))

save_service(req, svc) ==
    Try(IF req.fault THEN Raise(svc) ELSE Emit(svc, "ok"))

get_service_items(req, svc) ==
    Try(IF req.fault THEN Raise(svc) ELSE Emit(svc, "items"))

\* Variant of add_image that emits its confirmation before the last
\* collaborator call, which may still raise.
add_image_emits_early(req, svc) ==
    IF req.fault
    THEN [service |-> svc, emits |-> <<"ok">>, raised |-> TRUE]
    ELSE Emit(Append(svc, Item(req.id, "image", req.id)), "ok")

add_image(req, svc) ==
    IF req.fault THEN Raise(svc)
    ELSE Emit(Append(svc, Item(req.id, "image", req.id)), "ok")

add_video_audio(req, svc) ==
    IF req.fault THEN Raise(svc)
    ELSE Emit(Append(svc, Item(req.id, "media", req.id)), "ok")

\* _add_pdf_presentation of the file of call i under the title of call title.
\* Variant of _add_pdf_presentation that titles the item with
\* self.pending_conversion_title instead of the title it is given.
add_pdf_with_pending_title(i, title, fault, svc) ==
    Try(IF fault THEN Raise(svc)
        ELSE Emit(Append(svc, Item(i, "presentation", pending_conversion_title)), "ok"))

add_pdf_presentation(i, title, fault, svc) ==
    Try(IF fault THEN Raise(svc)
        ELSE Emit(Append(svc, Item(i, "presentation", title)), "ok"))

\* Variant of Route that classifies the extension as it is written.
Route_case_sensitive(loc) ==
    LET resolved_path == resolve_file_path(loc)
        extension == resolved_path.path.ext
    IN  CASE resolved_path.raised -> "raise"
          [] extension \in image_extensions -> "image"
          [] extension \in video_extensions \cup audio_extensions -> "media"
          [] extension \in powerpoint_extensions -> "powerpoint"
          [] extension \in presentation_extensions -> "pdf"
          [] OTHER -> "unsupported"

\* The sub-handler add_media routes the resolved file to.
Route(loc) ==
    LET resolved_path == resolve_file_path(loc)
        extension == Suffix(resolved_path.path)
    IN  CASE resolved_path.raised -> "raise"
          [] extension \in image_extensions -> "image"
          [] extension \in video_extensions \cup audio_extensions -> "media"
          [] extension \in powerpoint_extensions -> "powerpoint"
          [] extension \in presentation_extensions -> "pdf"
          [] OTHER -> "unsupported"

\* Variant of add_media that resolves the path before it enters its try
\* block.
add_media_resolves_outside_try(req, svc) ==
    LET route == Route(req.loc)
    IN  IF route = "raise" THEN Raise(svc)
        ELSE Try(CASE route = "image" -> add_image(req, svc)
                   [] route = "media" -> add_video_audio(req, svc)
                   [] route = "pdf" -> add_pdf_presentation(req.id, req.id, req.fault, svc)
                   [] OTHER -> Emit(svc, "unsupported"))

\* add_media for every route but the PowerPoint one (which is deferred).
add_media(req, svc) ==
    LET route == Route(req.loc)
    IN  Try(CASE route = "raise" -> Raise(svc)
              [] route = "image" -> add_image(req, svc)
              [] route = "media" -> add_video_audio(req, svc)
              [] route = "pdf" -> add_pdf_presentation(req.id, req.id, req.fault, svc)
              [] OTHER -> Emit(svc, "unsupported"))

Handler(req, svc) ==
    CASE req.op = "create_service" -> create_service(req, svc)
      [] req.op = "load_service" -> load_service(req, svc)
      [] req.op = "save_service" -> save_service(req, svc)
      [] req.op = "get_service_items" -> get_service_items(req, svc)
      [] OTHER -> add_media(req, svc)

Deferred(req) == req.op = "add_media" /\ Route(req.loc) = "powerpoint"

\* The conversion job of call j has been started and its completion or
\* failure callback has not been handled yet.
Pending(j) ==
    \/ isRunning(j)
    \/ \E k \in 1..Len(mainQueue) :
          mainQueue[k].t \in {"completed", "failed"} /\ mainQueue[k].id = j

\* The themes of the theme manager when the plugin starts; "Blue" is the
\* global theme.
InitialThemes == {"Default", "Blue"}

\* No slot has run yet.
NoRun == [op |-> "", emits |-> <<>>, payload |-> <<>>, resolved |-> NoLocator]

\* A second server thread that is not in a tool call.
NoCaller == [pc |-> "idle", cur |-> NoCall, waited |-> 0]

(***************************************************************************)
(* Initial state: MCPWorker.__init__, an empty service, no tool call yet.  *)
(***************************************************************************)
Init ==
    /\ callerPc = "idle"
    /\ cur = NoCall
    /\ waited = 0
    /\ nextId = 1
    /\ current_result = None
    /\ result_ready = FALSE
    /\ mainQueue = <<>>
    /\ mainPc = "loop"
    /\ mainCtx = NoReq
    /\ conversion_thread = 0
    /\ conversion_worker = 0
    /\ pending_conversion_title = 0
    /\ thread = [j \in Ids |-> "none"]
    /\ quitReq = [j \in Ids |-> FALSE]
    /\ job = [j \in Ids |-> NoJob]
    /\ toolTime = 0
    /\ service = <<>>
    /\ live = 0
    /\ other = NoCaller
    /\ theme_list = InitialThemes
    /\ global_theme = "Blue"
    /\ service_theme = global_theme
    /\ downloads = {}
    /\ last = NoRun
    /\ sigCount = [j \in Ids |-> 0]
    /\ returned = [j \in Ids |-> None]
    /\ superseded = {}

callerVars == <<callerPc, cur, waited, nextId, returned>>
channelVars == <<current_result, result_ready, sigCount>>
convVars == <<conversion_thread, conversion_worker, pending_conversion_title>>
threadVars == <<thread, quitReq, job, toolTime>>

(***************************************************************************)
(* The server thread: a tool function of tools.py.                         *)
(***************************************************************************)
\* add_media_to_service chooses the wait from the suffix of the raw argument;
\* every other tool waits with wait_for_result().
UsesLongWait(op, loc) ==
    op = "add_media" /\ RawSuffix(loc) \in powerpoint_extensions

\* Variant of Submit whose request overtakes the events already queued.
SubmitOvertakes(op, loc, fault) ==
    /\ callerPc = "idle"
    /\ nextId <= MaxSubmits
    /\ callerPc' = "emitted"
    /\ cur' = Call(nextId, op, loc, UsesLongWait(op, loc))
    /\ nextId' = nextId + 1
    /\ mainQueue' = <<Req(nextId, op, loc, fault)>> \o mainQueue
    /\ UNCHANGED <<waited, returned, channelVars, mainPc, mainCtx, convVars,
                   threadVars, service, superseded>>
    /\ UNCHANGED <<live, other, hostVars>>

\* self.worker.<op>_requested.emit(...): queued to the main thread.
Submit(op, loc, fault) ==
    /\ callerPc = "idle"
    /\ nextId <= MaxSubmits
    /\ callerPc' = "emitted"
    /\ cur' = Call(nextId, op, loc, UsesLongWait(op, loc))
    /\ nextId' = nextId + 1
    /\ mainQueue' = Append(mainQueue, Req(nextId, op, loc, fault))
    /\ UNCHANGED <<waited, returned, channelVars, mainPc, mainCtx, convVars,
                   threadVars, service, superseded>>
    /\ UNCHANGED <<live, other, hostVars>>

\* go_live_with_item(item_index): self.worker.go_live_requested.emit(item_index).
go_live_with_item(item_index, fault) ==
    /\ callerPc = "idle"
    /\ nextId <= MaxSubmits
    /\ callerPc' = "emitted"
    /\ cur' = Call(nextId, "go_live", NoLocator, FALSE)
    /\ nextId' = nextId + 1
    /\ mainQueue' = Append(mainQueue,
                           [Req(nextId, "go_live", NoLocator, fault) EXCEPT !.index = item_index])
    /\ UNCHANGED <<waited, returned, channelVars, mainPc, mainCtx, convVars,
                   threadVars, service, superseded>>
    /\ UNCHANGED <<live, other, hostVars>>

\* self.result_ready.clear(), the first statement of wait_for_result[_long].
EventClear ==
    /\ callerPc = "emitted"
    /\ callerPc' = "waiting"
    /\ result_ready' = FALSE
    /\ waited' = 0
    /\ UNCHANGED <<cur, nextId, returned, current_result, sigCount, mainQueue,
                   mainPc, mainCtx, convVars, threadVars, service, superseded>>
    /\ UNCHANGED <<live, other, hostVars>>

\* Variant of WaitReturn that consumes the signal it waited for.
WaitReturnConsumes ==
    /\ callerPc = "waiting"
    /\ result_ready
    /\ returned' = [returned EXCEPT ![cur.id] = current_result]
    /\ callerPc' = "idle"
    /\ cur' = NoCall
    /\ waited' = 0
    /\ result_ready' = FALSE
    /\ current_result' = None
    /\ UNCHANGED <<nextId, sigCount, mainQueue, mainPc, mainCtx,
                   convVars, threadVars, service, superseded>>
    /\ UNCHANGED <<live, other, hostVars>>

\* result_ready.wait(timeout) returned True: return self.current_result.
WaitReturn ==
    /\ callerPc = "waiting"
    /\ result_ready
    /\ returned' = [returned EXCEPT ![cur.id] = current_result]
    /\ callerPc' = "idle"
    /\ cur' = NoCall
    /\ waited' = 0
    /\ UNCHANGED <<nextId, channelVars, mainQueue, mainPc, mainCtx,
                   convVars, threadVars, service, superseded>>
    /\ UNCHANGED <<live, other, hostVars>>

\* Variant of WaitTimeout that waits again instead of raising.
WaitTimeoutRetries(timeout, message) ==
    /\ callerPc = "waiting"
    /\ ~result_ready
    /\ waited >= timeout
    /\ waited' = 0
    /\ UNCHANGED <<callerPc, cur, nextId, returned, channelVars, mainQueue, mainPc,
                   mainCtx, convVars, threadVars, service, superseded>>
    /\ UNCHANGED <<live, other, hostVars>>

\* result_ready.wait(timeout) returned False: raise TimeoutError.
WaitTimeout(timeout, message) ==
    /\ callerPc = "waiting"
    /\ ~result_ready
    /\ waited >= timeout
    /\ returned' = [returned EXCEPT ![cur.id] = TimeoutError(message)]
    /\ callerPc' = "idle"
    /\ cur' = NoCall
    /\ waited' = 0
    /\ UNCHANGED <<nextId, channelVars, mainQueue, mainPc, mainCtx,
                   convVars, threadVars, service, superseded>>
    /\ UNCHANGED <<live, other, hostVars>>

\* wait_for_result(timeout=10)
wait_for_result ==
    \/ EventClear
    \/ WaitReturn
    \/ WaitTimeout(ShortTimeout, "Operation timed out")

\* wait_for_result_long(timeout=90)
wait_for_result_long ==
    \/ EventClear
    \/ WaitReturn
    \/ WaitTimeout(LongTimeout, "Long operation timed out")

\* The wait of the tool call in progress.
ToolWait == IF cur.long THEN wait_for_result_long ELSE wait_for_result

CallerTimeout == IF cur.long THEN LongTimeout ELSE ShortTimeout

(***************************************************************************)
(* The main thread: slots run from the event queue, one at a time.         *)
(***************************************************************************)
\* Variant of handle_result that keeps a stored result nobody has consumed.
handle_result_keeps_first(i, emits) ==
    /\ sigCount' = [sigCount EXCEPT ![i] = @ + Len(emits)]
    /\ IF emits # <<>> /\ ~result_ready
       THEN /\ current_result' = Result(i, emits[Len(emits)])
            /\ result_ready' = TRUE
       ELSE UNCHANGED <<current_result, result_ready>>

\* operation_completed.emit(result) for each emitted kind, on behalf of call
\* i: _handle_result stores the result and sets the event.
handle_result(i, emits) ==
    /\ sigCount' = [sigCount EXCEPT ![i] = @ + Len(emits)]
    /\ IF emits # <<>>
       THEN /\ current_result' = Result(i, emits[Len(emits)])
            /\ result_ready' = TRUE
       ELSE UNCHANGED <<current_result, result_ready>>

\* Variant of StartThread that reports success as soon as the thread starts.
StartThreadSignals(req) ==
    /\ pending_conversion_title' = req.id
    /\ conversion_thread' = req.id
    /\ conversion_worker' = req.id
    /\ thread' = [thread EXCEPT ![req.id] = "started"]
    /\ superseded' = superseded \cup {j \in Ids : Pending(j)}
    /\ handle_result(req.id, <<"ok">>)

\* _start_powerpoint_conversion from line 398 on: store the title, create the
\* thread and the worker, start the thread.  A fault is QThread raising.
StartThread(req) ==
    /\ pending_conversion_title' = req.id
    /\ IF req.fault
       THEN /\ handle_result(req.id, <<"error">>)
            /\ UNCHANGED <<conversion_thread, conversion_worker, thread, superseded>>
       ELSE /\ conversion_thread' = req.id
            /\ conversion_worker' = req.id
            /\ thread' = [thread EXCEPT ![req.id] = "started"]
            /\ superseded' = superseded \cup {j \in Ids : Pending(j)}
            /\ UNCHANGED channelVars

\* Variant of _start_powerpoint_conversion that does not stop the running
\* thread before it starts the next.
start_without_wait(req) ==
    /\ StartThread(req)
    /\ UNCHANGED <<quitReq, mainPc, mainCtx>>

\* _start_powerpoint_conversion: quit and wait for a running thread first.
start_powerpoint_conversion(req) ==
    IF isRunning(conversion_thread)
    THEN /\ quitReq' = [quitReq EXCEPT ![conversion_thread] = TRUE]
         /\ mainPc' = "start_wait"
         /\ mainCtx' = req
         /\ UNCHANGED <<channelVars, convVars, thread, superseded>>
    ELSE /\ StartThread(req)
         /\ UNCHANGED <<quitReq, mainPc, mainCtx>>

\* go_live: service_manager.set_item(item_index), then make_live().  Both
\* belong to OpenLP; an index outside the service either makes set_item raise
\* (req.fault) or is ignored by it, and make_live then acts on the selection
\* there was before, which the model keeps as the live item.
go_live(req) ==
    LET valid == req.index >= 0 /\ req.index < Len(service)
        body == Try(IF req.fault THEN Raise(service) ELSE Emit(service, "ok"))
    IN  /\ live' = IF ~req.fault /\ valid THEN req.index + 1 ELSE live
        /\ handle_result(req.id, body.emits)

\* A queued *_requested signal reaches its slot.
MainDispatch ==
    /\ mainPc = "loop"
    /\ mainQueue # <<>>
    /\ Head(mainQueue).t = "req"
    /\ mainQueue' = Tail(mainQueue)
    /\ LET req == Head(mainQueue)
       IN  CASE Deferred(req) ->
                   /\ start_powerpoint_conversion(req)
                   /\ UNCHANGED <<service, live>>
             [] req.op = "go_live" ->
                   /\ go_live(req)
                   /\ UNCHANGED <<service, mainPc, mainCtx, convVars, thread, quitReq,
                                  superseded>>
             [] OTHER ->
                   /\ service' = Handler(req, service).service
                   /\ handle_result(req.id, Handler(req, service).emits)
                   /\ UNCHANGED <<live, mainPc, mainCtx, convVars, thread, quitReq,
                                  superseded>>
    /\ downloads' = IF Head(mainQueue).op \in {"load_service", "add_media"}
                     THEN Fetched(Head(mainQueue).loc, downloads)
                     ELSE downloads
    /\ UNCHANGED <<callerVars, job, toolTime>>
    /\ UNCHANGED <<other, theme_list, global_theme, service_theme, last>>

\* conversion_thread.wait() of _start_powerpoint_conversion returns.
MainStartAfterWait ==
    /\ mainPc = "start_wait"
    /\ thread[conversion_thread] = "finished"
    /\ StartThread(mainCtx)
    /\ mainPc' = "loop"
    /\ mainCtx' = NoReq
    /\ UNCHANGED <<callerVars, mainQueue, quitReq, job, toolTime, service>>
    /\ UNCHANGED <<live, other, hostVars>>

\* Variant of _cleanup_conversion_thread that forgets the thread without
\* waiting for it to finish.
cleanup_without_wait ==
    IF conversion_thread = 0
    THEN /\ mainPc' = "loop"
         /\ UNCHANGED <<convVars, quitReq>>
    ELSE /\ conversion_thread' = 0
         /\ conversion_worker' = 0
         /\ quitReq' = [quitReq EXCEPT ![conversion_thread] = TRUE]
         /\ mainPc' = "loop"
         /\ UNCHANGED pending_conversion_title

\* _cleanup_conversion_thread: quit and wait for whatever thread
\* self.conversion_thread names, then forget thread and worker.
cleanup_conversion_thread ==
    IF conversion_thread = 0
    THEN /\ mainPc' = "loop"
         /\ UNCHANGED <<convVars, quitReq>>
    ELSE IF thread[conversion_thread] = "finished"
    THEN /\ conversion_thread' = 0
         /\ conversion_worker' = 0
         /\ quitReq' = [quitReq EXCEPT ![conversion_thread] = TRUE]
         /\ mainPc' = "loop"
         /\ UNCHANGED pending_conversion_title
    ELSE /\ quitReq' = [quitReq EXCEPT ![conversion_thread] = TRUE]
         /\ mainPc' = "cleanup_wait"
         /\ UNCHANGED convVars

\* Variant of on_conversion_completed that emits the confirmation before the
\* item is added to the service.
completed_emits_first ==
    /\ mainPc = "loop"
    /\ mainQueue # <<>>
    /\ Head(mainQueue).t = "completed"
    /\ mainQueue' = Tail(mainQueue)
    /\ handle_result(Head(mainQueue).id, <<"ok">>)
    /\ mainCtx' = Head(mainQueue)
    /\ mainPc' = "emit"
    /\ UNCHANGED <<callerVars, convVars, threadVars, service, superseded>>
    /\ UNCHANGED <<live, other, hostVars>>

\* _on_conversion_completed(pdf_path, title), queued from the worker thread,
\* up to service_manager.add_service_item in _add_pdf_presentation: the
\* server thread can observe the service before the result is emitted.
on_conversion_completed ==
    /\ mainPc = "loop"
    /\ mainQueue # <<>>
    /\ Head(mainQueue).t = "completed"
    /\ mainQueue' = Tail(mainQueue)
    /\ \E fault \in BOOLEAN :
          LET cb == Head(mainQueue)
              added == add_pdf_presentation(cb.id, cb.title, fault, service)
          IN  /\ service' = added.service
              /\ mainCtx' = [cb EXCEPT !.fault = fault]
    /\ mainPc' = "emit"
    /\ UNCHANGED <<callerVars, channelVars, convVars, threadVars, superseded>>
    /\ UNCHANGED <<live, other, hostVars>>

\* The rest of _on_conversion_completed: operation_completed.emit at the end
\* of _add_pdf_presentation (or in its except clause), then
\* _cleanup_conversion_thread.
CompletedEmit ==
    /\ mainPc = "emit"
    /\ handle_result(mainCtx.id,
                     add_pdf_presentation(mainCtx.id, mainCtx.title, mainCtx.fault,
                                          service).emits)
    /\ cleanup_conversion_thread
    /\ mainCtx' = NoReq
    /\ UNCHANGED <<callerVars, mainQueue, thread, job, toolTime, service, superseded>>
    /\ UNCHANGED <<live, other, hostVars>>

\* _on_conversion_failed(error_message), queued from the worker thread.
on_conversion_failed ==
    /\ mainPc = "loop"
    /\ mainQueue # <<>>
    /\ Head(mainQueue).t = "failed"
    /\ mainQueue' = Tail(mainQueue)
    /\ handle_result(Head(mainQueue).id, <<"failed">>)
    /\ cleanup_conversion_thread
    /\ UNCHANGED <<callerVars, mainCtx, thread, job, toolTime, service, superseded>>
    /\ UNCHANGED <<live, other, hostVars>>

\* conversion_thread.wait() of _cleanup_conversion_thread returns.
MainCleanupAfterWait ==
    /\ mainPc = "cleanup_wait"
    /\ thread[conversion_thread] = "finished"
    /\ conversion_thread' = 0
    /\ conversion_worker' = 0
    /\ mainPc' = "loop"
    /\ UNCHANGED <<callerVars, channelVars, mainQueue, mainCtx,
                   pending_conversion_title, threadVars, service, superseded>>
    /\ UNCHANGED <<live, other, hostVars>>

(***************************************************************************)
(* The conversion thread of call j.                                        *)
(***************************************************************************)
\* QThread.started: the lambda of line 411 reads self.conversion_worker and
\* self.pending_conversion_title now and calls convert_powerpoint.
ThreadStarted(j) ==
    /\ thread[j] = "started"
    /\ \E env \in ConversionEnvs :
          job' = [job EXCEPT ![j] = [path |-> j, worker |-> conversion_worker,
                                     title |-> pending_conversion_title, env |-> env]]
    /\ thread' = [thread EXCEPT ![j] = "converting"]
    /\ toolTime' = 0
    /\ UNCHANGED <<callerVars, channelVars, mainQueue, mainPc, mainCtx, convVars,
                   quitReq, service, superseded>>
    /\ UNCHANGED <<live, other, hostVars>>

\* Variant of ThreadConverted in which the conversion thread adds the
\* converted presentation to the service itself.
ThreadConvertedAddsItem(j) ==
    /\ thread[j] = "converting"
    /\ toolTime >= ToolDeadline(job[j].env)
    /\ service' = Append(service, Item(job[j].path, "presentation", job[j].title))
    /\ mainQueue' = Append(mainQueue, Callback("failed", job[j].path, job[j].title))
    /\ thread' = [thread EXCEPT ![j] = IF quitReq[j] THEN "finished" ELSE "evloop"]
    /\ job' = [job EXCEPT ![j] = NoJob]
    /\ toolTime' = 0
    /\ UNCHANGED <<callerVars, channelVars, mainPc, mainCtx, convVars, quitReq,
                   superseded>>
    /\ UNCHANGED <<live, other, hostVars>>

\* Variant of convert_powerpoint without the else branch and the except
\* clause: nothing is emitted when no PDF came back.
emitted_only_on_success(jb) ==
    IF convert_powerpoint(jb.env) = "completed"
    THEN [Callback("completed", jb.path, jb.title)
            EXCEPT !.pdf_path = convert_ppt_to_pdf(jb.env)]
    ELSE NoReq

\* What convert_powerpoint emits for a job: conversion_completed carries the
\* PDF path, conversion_failed only a message.
Emitted(jb) ==
    IF convert_powerpoint(jb.env) = "completed"
    THEN [Callback("completed", jb.path, jb.title)
            EXCEPT !.pdf_path = convert_ppt_to_pdf(jb.env)]
    ELSE Callback("failed", jb.path, jb.title)

\* convert_powerpoint emits conversion_completed or conversion_failed (queued
\* to the main thread) and returns to the thread's event loop, which exits
\* at once when quit() has been called.
ThreadConverted(j) ==
    /\ thread[j] = "converting"
    /\ toolTime >= ToolDeadline(job[j].env)
    /\ mainQueue' = Append(mainQueue, Emitted(job[j]))
    /\ thread' = [thread EXCEPT ![j] = IF quitReq[j] THEN "finished" ELSE "evloop"]
    /\ job' = [job EXCEPT ![j] = NoJob]
    /\ toolTime' = 0
    /\ UNCHANGED <<callerVars, channelVars, mainPc, mainCtx, convVars, quitReq,
                   service, superseded>>
    /\ UNCHANGED <<live, other, hostVars>>

\* The thread's event loop sees quit() and run() returns.
ThreadExit(j) ==
    /\ thread[j] = "evloop"
    /\ quitReq[j]
    /\ thread' = [thread EXCEPT ![j] = "finished"]
    /\ UNCHANGED <<callerVars, channelVars, mainQueue, mainPc, mainCtx, convVars,
                   quitReq, job, toolTime, service, superseded>>
    /\ UNCHANGED <<live, other, hostVars>>

(***************************************************************************)
(* Time: TickSeconds pass for the waiting caller and the running tool.     *)
(***************************************************************************)
ToolRunning ==
    \E j \in Ids : thread[j] = "converting" /\ toolTime < ToolDeadline(job[j].env)

\* The caller is blocked in result_ready.wait(timeout).
CallerBlocked == callerPc = "waiting" /\ ~result_ready

Tick ==
    /\ \/ CallerBlocked /\ waited < CallerTimeout
       \/ ToolRunning
    /\ waited' = IF CallerBlocked
                 THEN Min(waited + TickSeconds, CallerTimeout) ELSE waited
    /\ toolTime' = IF ToolRunning
                   THEN Min(toolTime + TickSeconds, LibreOfficeTimeout) ELSE toolTime
    /\ UNCHANGED <<callerPc, cur, nextId, returned, channelVars, mainQueue, mainPc,
                   mainCtx, convVars, thread, quitReq, job, service, superseded>>
    /\ UNCHANGED <<live, other, hostVars>>

(***************************************************************************)
(* A second server thread calling tools on the same MCPWorker while the    *)
(* first one is in a call (a server that runs tool functions concurrently).*)
(* It takes part in TwoCallerSpec only.                                    *)
(***************************************************************************)
\* The tools the two threads call: create_new_service and get_service_items.
TwoCallerOps == {"create_service", "get_service_items"}

\* self.worker.<op>_requested.emit() on the second server thread.
OtherSubmit(op) ==
    /\ other.pc = "idle"
    /\ nextId <= MaxSubmits
    /\ other' = [pc |-> "emitted", cur |-> Call(nextId, op, NoLocator, FALSE), waited |-> 0]
    /\ nextId' = nextId + 1
    /\ mainQueue' = Append(mainQueue, Req(nextId, op, NoLocator, FALSE))
    /\ UNCHANGED <<callerPc, cur, waited, returned, channelVars, mainPc, mainCtx,
                   convVars, threadVars, service, live, hostVars, superseded>>

\* wait_for_result on the second server thread: clear, then wait, then
\* return current_result or raise TimeoutError.
OtherClear ==
    /\ other.pc = "emitted"
    /\ other' = [other EXCEPT !.pc = "waiting"]
    /\ result_ready' = FALSE
    /\ UNCHANGED <<callerVars, current_result, sigCount, mainQueue, mainPc, mainCtx,
                   convVars, threadVars, service, live, hostVars, superseded>>

OtherReturn ==
    /\ other.pc = "waiting"
    /\ result_ready
    /\ returned' = [returned EXCEPT ![other.cur.id] = current_result]
    /\ other' = NoCaller
    /\ UNCHANGED <<callerPc, cur, waited, nextId, channelVars, mainQueue, mainPc,
                   mainCtx, convVars, threadVars, service, live, hostVars, superseded>>

OtherTimeout ==
    /\ other.pc = "waiting"
    /\ ~result_ready
    /\ other.waited >= ShortTimeout
    /\ returned' = [returned EXCEPT ![other.cur.id] = TimeoutError("Operation timed out")]
    /\ other' = NoCaller
    /\ UNCHANGED <<callerPc, cur, waited, nextId, channelVars, mainQueue, mainPc,
                   mainCtx, convVars, threadVars, service, live, hostVars, superseded>>

OtherWait == OtherClear \/ OtherReturn \/ OtherTimeout

\* TickSeconds pass for the second server thread blocked in wait(timeout).
OtherTick ==
    /\ other.pc = "waiting"
    /\ ~result_ready
    /\ other.waited < ShortTimeout
    /\ other' = [other EXCEPT !.waited = Min(@ + TickSeconds, ShortTimeout)]
    /\ UNCHANGED <<callerVars, channelVars, mainQueue, mainPc, mainCtx, convVars,
                   threadVars, service, live, hostVars, superseded>>

TwoCallerNext ==
    \/ \E op \in TwoCallerOps, fault \in BOOLEAN : Submit(op, NoLocator, fault)
    \/ wait_for_result
    \/ MainDispatch
    \/ Tick
    \/ \E op \in TwoCallerOps : OtherSubmit(op)
    \/ OtherWait
    \/ OtherTick

TwoCallerSpec == Init /\ [][TwoCallerNext]_vars

(***************************************************************************)
(* The slots of MCPWorker that work on the host application's themes and   *)
(* service items, run to completion on the main thread (HostSpec): one     *)
(* action per slot, with the results it emits kept in last.  In the        *)
(* records of these slots the service field holds what the slot works on:  *)
(* the theme names for the theme slots, the service items for the others.  *)
(***************************************************************************)
MaxItems == 2

ThemeNames == {"Default", "Blue", "Red"}

\* theme_name of the Theme() the host's get_theme_data builds when it finds
\* no data.
UnnamedTheme == ""

\* What theme_manager.get_theme_data(name) returns for a name that is not a
\* theme: the host logs 'No theme data - using default theme' and returns a
\* default Theme(); None is kept as an outcome as well.
MissingThemeData == {"None", "Theme"}

\* The updates argument of update_theme: no valid property, a font
\* property, the theme_name property, or background_image_path with the
\* empty string as its value (the key is there and the value is falsy).
Updates == {"", "font_main_size", "theme_name", "background_image_path"}

\* The background_image_path arguments of create_theme and update_theme:
\* none, a URL that is fetched, a URL whose fetch fails.
ImageLocators ==
    { NoLocator,
      Loc("http", "image", ".png", FALSE, "", TRUE),
      Loc("http", "image", ".png", FALSE, "", FALSE) }

ThemeReq(op, theme_name, new_theme_name, updates, image, missing, fault) ==
    [op |-> op, theme_name |-> theme_name, new_theme_name |-> new_theme_name,
     updates |-> updates, image |-> image, missing |-> missing, fault |-> fault]

\* theme_manager.save_theme(theme) / clone_theme_data(theme_data, name)
save_theme(themes, name) == themes \cup {name}

list_themes(req, themes) ==
    Try(IF req.fault THEN Raise(themes) ELSE Emit(themes, "themes"))

create_theme(req, themes) ==
    Try(CASE req.theme_name \in themes -> Emit(themes, "already exists")
          [] req.image # NoLocator /\ resolve_file_path(req.image).raised ->
                Emit(themes, "Error downloading background image")
          [] req.fault -> Raise(themes)
          [] OTHER -> Emit(save_theme(themes, req.theme_name), "created"))

\* theme_manager.get_theme_data(theme_name): the name of the theme object it
\* returns, "None" for None.
get_theme_data(req, themes) ==
    IF req.theme_name \in themes THEN req.theme_name
    ELSE IF req.missing = "None" THEN "None" ELSE UnnamedTheme

get_theme_details(req, themes) ==
    Try(CASE req.fault -> Raise(themes)
          [] get_theme_data(req, themes) = "None" -> Emit(themes, "not found")
          [] OTHER -> Emit(themes, "Theme Details"))

update_theme(req, themes) ==
    LET theme == get_theme_data(req, themes)
        saved == IF req.updates = "theme_name" THEN req.new_theme_name ELSE theme
    IN  Try(CASE req.fault -> Raise(themes)
              [] theme = "None" -> Emit(themes, "not found")
              [] req.image # NoLocator /\ resolve_file_path(req.image).raised ->
                    Emit(themes, "Error downloading background image")
              [] req.updates # "" \/ req.image # NoLocator ->
                    Emit(save_theme(themes, saved), "updated")
              [] OTHER -> Emit(themes, "No valid properties provided"))

\* Variant of delete_theme without the check for the global theme.
delete_theme_unguarded(req, themes, global) ==
    Try(CASE req.theme_name \notin themes -> Emit(themes, "not found")
          [] req.theme_name = "Default" -> Emit(themes, "Cannot delete the default theme")
          [] req.fault -> Raise(themes)
          [] OTHER -> Emit(themes \ {req.theme_name}, "deleted"))

delete_theme(req, themes, global) ==
    Try(CASE req.theme_name \notin themes -> Emit(themes, "not found")
          [] req.theme_name = "Default" -> Emit(themes, "Cannot delete the default theme")
          [] req.theme_name = global -> Emit(themes, "Cannot delete the global theme")
          [] req.fault -> Raise(themes)
          [] OTHER -> Emit(themes \ {req.theme_name}, "deleted"))

duplicate_theme(req, themes) ==
    Try(CASE req.theme_name \notin themes -> Emit(themes, "Source theme not found")
          [] req.new_theme_name \in themes -> Emit(themes, "already exists")
          [] req.fault -> Raise(themes)
          [] OTHER -> Emit(save_theme(themes, req.new_theme_name), "duplicated"))

ThemeOps == {"list_themes", "create_theme", "get_theme_details", "update_theme",
             "delete_theme", "duplicate_theme"}

ThemeHandler(req, themes, global) ==
    CASE req.op = "list_themes" -> list_themes(req, themes)
      [] req.op = "create_theme" -> create_theme(req, themes)
      [] req.op = "get_theme_details" -> get_theme_details(req, themes)
      [] req.op = "update_theme" -> update_theme(req, themes)
      [] req.op = "delete_theme" -> delete_theme(req, themes, global)
      [] OTHER -> duplicate_theme(req, themes)

\* The arguments tried for a theme slot; the ones it does not read are fixed.
ThemeReqs(op) ==
    LET all == { ThemeReq(op, n, m, u, i, d, f) :
                   n \in IF op = "list_themes" THEN {""} ELSE ThemeNames,
                   m \in CASE op = "duplicate_theme" -> {"Red", "Blue"}
                          [] op = "update_theme" -> {"Red"}
                          [] OTHER -> {""},
                   u \in IF op = "update_theme" THEN Updates ELSE {""},
                   i \in IF op = "create_theme" \/ op = "update_theme"
                         THEN ImageLocators ELSE {NoLocator},
                   d \in IF op = "get_theme_details" \/ op = "update_theme"
                         THEN MissingThemeData ELSE {"None"},
                   f \in BOOLEAN }
    IN  { req \in all :
            /\ req.fault => req.image = NoLocator /\ req.updates # "theme_name"
            /\ req.updates = "background_image_path" => req.image = NoLocator }

\* The download directory after a theme slot: create_theme resolves the
\* background image of a new name, update_theme the one of a theme it found.
ThemeFetched(req, themes, files) ==
    IF \/ req.op = "create_theme" /\ req.theme_name \notin themes
       \/ req.op = "update_theme" /\ ~req.fault /\ get_theme_data(req, themes) # "None"
    THEN Fetched(req.image, files)
    ELSE files

\* self.operation_completed.emit(result) runs _handle_result in place: the
\* slot and the emitting code are on the same thread.
HostEmit(emits) ==
    IF emits = <<>>
    THEN UNCHANGED <<current_result, result_ready>>
    ELSE /\ current_result' = Result(0, emits[Len(emits)])
         /\ result_ready' = TRUE

\* One theme slot runs on the main thread.
HostTheme(req) ==
    /\ theme_list' = ThemeHandler(req, theme_list, global_theme).service
    /\ downloads' = ThemeFetched(req, theme_list, downloads)
    /\ last' = [op |-> req.op, emits |-> ThemeHandler(req, theme_list, global_theme).emits,
                payload |-> <<>>, resolved |-> NoLocator]
    /\ HostEmit(last'.emits)
    /\ UNCHANGED <<callerVars, sigCount, mainQueue, mainPc, mainCtx, convVars,
                   threadVars, service, live, other, global_theme, service_theme, superseded>>

\* The arguments of set_item_theme, get_item_theme and clear_item_theme.
ItemReq(op, item_index, theme_name, fault) ==
    [op |-> op, index |-> item_index, theme_name |-> theme_name, fault |-> fault]

\* service_item.update_theme(theme_to_set) on the item at item_index.
update_item_theme(svc, item_index, theme_to_set) ==
    [svc EXCEPT ![item_index + 1].theme = theme_to_set]

\* Variant of set_item_theme that compares the name with 'none' as written.
set_item_theme_case_sensitive(req, svc, themes) ==
    LET clears == req.theme_name \in {"", NoTheme} \/ req.theme_name = "none"
    IN  Try(CASE req.index < 0 \/ req.index >= Len(svc) -> Emit(svc, "Invalid item index")
              [] ~clears /\ req.theme_name \notin themes -> Emit(svc, "not found")
              [] req.fault -> Raise(svc)
              [] clears -> Emit(update_item_theme(svc, req.index, NoTheme), "theme cleared")
              [] OTHER -> Emit(update_item_theme(svc, req.index, req.theme_name),
                               "theme set"))

set_item_theme(req, svc, themes) ==
    LET clears == req.theme_name \in {"", NoTheme} \/ lower(req.theme_name) = "none"
    IN  Try(CASE req.index < 0 \/ req.index >= Len(svc) -> Emit(svc, "Invalid item index")
              [] ~clears /\ req.theme_name \notin themes -> Emit(svc, "not found")
              [] req.fault -> Raise(svc)
              [] clears -> Emit(update_item_theme(svc, req.index, NoTheme), "theme cleared")
              [] OTHER -> Emit(update_item_theme(svc, req.index, req.theme_name),
                               "theme set"))

get_item_theme(req, svc, themes) ==
    Try(CASE req.index < 0 \/ req.index >= Len(svc) -> Emit(svc, "Invalid item index")
          [] req.fault -> Raise(svc)
          [] OTHER -> Emit(svc, "item theme"))

\* clear_item_theme: self.set_item_theme(item_index, None) inside a try of
\* its own.
clear_item_theme(req, svc, themes) ==
    Try(set_item_theme([req EXCEPT !.theme_name = NoTheme], svc, themes))

ItemThemeOps == {"set_item_theme", "get_item_theme", "clear_item_theme"}

ItemThemeHandler(req, svc, themes) ==
    CASE req.op = "set_item_theme" -> set_item_theme(req, svc, themes)
      [] req.op = "get_item_theme" -> get_item_theme(req, svc, themes)
      [] OTHER -> clear_item_theme(req, svc, themes)

\* The item_index arguments tried: the first two items, one below and one
\* above every service of the model.
ItemIndexes == {-1, 0, 1, 99}

\* The theme_name arguments tried for set_item_theme.
ItemThemeNames == {"Blue", "Red", "", "none", "NONE"}

ItemReqs(op) ==
    { ItemReq(op, i, n, f) :
        i \in ItemIndexes,
        n \in IF op = "set_item_theme" THEN ItemThemeNames ELSE {NoTheme},
        f \in BOOLEAN }

\* One per-item theme slot runs on the main thread.
HostItemTheme(req) ==
    /\ service' = ItemThemeHandler(req, service, theme_list).service
    /\ last' = [op |-> req.op, emits |-> ItemThemeHandler(req, service, theme_list).emits,
                payload |-> <<>>, resolved |-> NoLocator]
    /\ HostEmit(last'.emits)
    /\ UNCHANGED <<callerVars, sigCount, mainQueue, mainPc, mainCtx, convVars,
                   threadVars, live, other, theme_list, global_theme, service_theme, downloads,
                   superseded>>

\* The file_path arguments tried in HostSpec: the PowerPoint ones, which
\* start a conversion thread, are followed in Spec.
HostLocators ==
    { Loc("", "file", ".JPG", FALSE, "", TRUE),
      Loc("", "file", ".mp4", FALSE, "", TRUE),
      Loc("", "file", ".xyz", FALSE, "", TRUE),
      Loc("", "file", ".jpg", FALSE, "", FALSE),
      NoLocator }

HostLocatorsOf(op) ==
    CASE op = "add_media" -> HostLocators
      [] op = "load_service" -> ServiceLocators
      [] OTHER -> {NoLocator}

\* Variant of get_service_items that hands out the list it built for the
\* service as it was created.
service_items_list_stale(svc) == <<>>

\* The list get_service_items builds from service_manager.service_items.
service_items_list(svc) ==
    [k \in 1..Len(svc) |-> [title |-> svc[k].title, plugin |-> svc[k].kind, order |-> k]]

\* One service slot runs on the main thread; the title of a new item is its
\* position.
HostService(op, loc, fault) ==
    LET req == Req(Len(service) + 1, op, loc, fault)
        done == Handler(req, service)
    IN  /\ ~Deferred(req)
        /\ Len(done.service) <= MaxItems
        /\ service' = done.service
        /\ downloads' = IF op \in {"load_service", "add_media"}
                        THEN Fetched(loc, downloads)
                        ELSE downloads
        /\ last' = [op |-> op, emits |-> done.emits,
                    payload |-> IF op = "get_service_items" /\ done.emits = <<"items">>
                                THEN service_items_list(service)
                                ELSE <<>>,
                    resolved |-> IF op \in {"load_service", "add_media"}
                                 THEN resolve_file_path(loc).path
                                 ELSE NoLocator]
        /\ HostEmit(done.emits)
        /\ UNCHANGED <<callerVars, sigCount, mainQueue, mainPc, mainCtx, convVars,
                       threadVars, live, other, theme_list, global_theme, service_theme, superseded>>

\* The theme_name arguments tried for set_service_theme: a theme of the
\* store the plugin starts with and a name that is none.
ServiceThemeNames == {"Blue", "Red"}

\* set_theme: service_manager.service_theme = theme_name.  The service slot
\* of the record holds the service theme.
set_theme(theme_name, fault, svc_theme) ==
    Try(IF fault THEN Raise(svc_theme) ELSE Emit(theme_name, "Service theme set"))

\* The set_theme slot runs on the main thread.
HostSetTheme(theme_name, fault) ==
    /\ service_theme' = set_theme(theme_name, fault, service_theme).service
    /\ last' = [op |-> "set_theme",
                emits |-> set_theme(theme_name, fault, service_theme).emits,
                payload |-> <<>>, resolved |-> NoLocator]
    /\ HostEmit(last'.emits)
    /\ UNCHANGED <<callerVars, sigCount, mainQueue, mainPc, mainCtx, convVars,
                   threadVars, service, live, other, theme_list, global_theme,
                   downloads, superseded>>

\* The theme slots and the per-item theme slots, over services of images.
ThemeNext ==
    \/ \E op \in {"create_service", "add_media"}, fault \in BOOLEAN :
          HostService(op, IF op = "add_media" THEN Loc("", "file", ".JPG", FALSE, "", TRUE)
                                             ELSE NoLocator, fault)
    \/ \E op \in ThemeOps : \E req \in ThemeReqs(op) : HostTheme(req)
    \/ \E op \in ItemThemeOps : \E req \in ItemReqs(op) : HostItemTheme(req)
    \/ \E theme_name \in ServiceThemeNames, fault \in BOOLEAN :
          HostSetTheme(theme_name, fault)

ThemeSpec == Init /\ [][ThemeNext]_vars

MaxDownloads == 2

\* The file_path arguments tried in UrlSpec: URLs with and without a file
\* name and an extension, with a content type that is mapped, carries
\* parameters, is not mapped or is missing, and local files.
UrlLocators ==
    { Loc("http",  "photo", "",     TRUE,  "image/jpeg",                 TRUE),
      Loc("http",  "photo", "",     FALSE, "image/jpeg; charset=binary", TRUE),
      Loc("https", "photo", "",     FALSE, "",                           TRUE),
      Loc("http",  "video", "",     FALSE, "text/html",                  TRUE),
      Loc("http",  "video", "",     FALSE, "image/png",                  TRUE),
      Loc("ftp",   "file",  "",     FALSE, "",                           TRUE),
      Loc("http",  "",      "",     FALSE, "audio/mpeg",                 TRUE),
      Loc("http",  "clip",  ".mp4", FALSE, "image/jpeg",                 TRUE),
      Loc("http",  "photo", "",     FALSE, "image/jpeg",                 FALSE),
      Loc("",      "file",  ".JPG", FALSE, "",                           TRUE),
      Loc("",      "file",  ".jpg", FALSE, "",                           FALSE),
      Loc("file",  "file",  ".jpg", FALSE, "",                           FALSE) }

\* Variant of clean_temp_downloads with one try around the whole loop: the
\* first unlink that raises ends it (here the first file tried).
clean_stops_at_first_failure(files, failing, listable) ==
    IF listable /\ files \cap failing = {} THEN {} ELSE files

\* clean_temp_downloads: unlinks every file of the download directory;
\* failing are the files whose unlink raises, which it logs and leaves.
\* When the directory cannot be listed (exists, is_dir or glob raises) the
\* outer except logs that and nothing is removed.
clean_temp_downloads(files, failing, listable) ==
    IF listable THEN files \cap failing ELSE files

\* MCPPlugin.finalise: clean_temp_downloads() in a try, then the host's
\* finalise.
finalise(failing, listable) ==
    /\ downloads' = clean_temp_downloads(downloads, failing, listable)
    /\ last' = [op |-> "finalise", emits |-> <<>>, payload |-> <<>>, resolved |-> NoLocator]
    /\ UNCHANGED <<callerVars, channelVars, mainQueue, mainPc, mainCtx, convVars,
                   threadVars, service, live, other, theme_list, global_theme, service_theme,
                   superseded>>

\* add_media on URLs and on the files already downloaded, and shutdown.
UrlNext ==
    \/ \E loc \in UrlLocators \cup downloads, fault \in BOOLEAN :
          /\ Cardinality(Fetched(loc, downloads)) <= MaxDownloads
          /\ HostService("add_media", loc, fault)
    \/ HostService("create_service", NoLocator, FALSE)
    \/ \E failing \in SUBSET downloads, listable \in BOOLEAN : finalise(failing, listable)

UrlSpec == Init /\ [][UrlNext]_vars

\* What the collaborators of add_song do in one call:
\*   plugin       "active", "inactive" (no songs plugin, or not active)
\*   lookup       "found", "none", "raises" (manager.get_all_objects)
\*   generate     "ok", "falsy", "raises" (media_item.generate_slide_data)
\*   repaint      "ok", "raises": repaint_service_list after the song found
\*                in the database has been added
\*   placeholder  "ok", "raises" before add_service_item, "raises_after" it
\*                (_create_song_placeholder)
SongEnvs ==
    [plugin : {"active", "inactive"}, lookup : {"found", "none", "raises"},
     generate : {"ok", "falsy", "raises"}, repaint : {"ok", "raises"},
     placeholder : {"ok", "raises", "raises_after"}]

\* body, then self.operation_completed.emit(kind) unless body raised.
ThenEmit(body, kind) == IF body.raised THEN body ELSE Emit(body.service, kind)

create_song_placeholder(env, svc) ==
    LET added == Append(svc, Item(Len(svc) + 1, "placeholder", Len(svc) + 1))
    IN  CASE env.placeholder = "raises" -> Raise(svc)
          [] env.placeholder = "raises_after" -> Raise(added)
          [] OTHER -> [service |-> added, emits |-> <<>>, raised |-> FALSE]

add_song(env, svc) ==
    LET added == Append(svc, Item(Len(svc) + 1, "song", Len(svc) + 1))
        load == CASE env.generate = "raises" -> Raise(svc)
                  [] env.generate = "falsy" ->
                        ThenEmit(create_song_placeholder(env, svc),
                                 "found but failed to load - added placeholder")
                  [] env.repaint = "raises" -> Raise(added)
                  [] OTHER -> Emit(added, "added from database")
    IN  Try(CASE env.plugin = "inactive" -> Emit(svc, "Songs plugin not available")
              [] env.lookup = "raises" -> Raise(svc)
              [] env.lookup = "none" ->
                    ThenEmit(create_song_placeholder(env, svc),
                             "not found in database - added placeholder")
              [] load.raised ->
                    ThenEmit(create_song_placeholder(env, load.service),
                             "found but failed to load - added placeholder")
              [] OTHER -> load)

\* The add_song slot runs on the main thread.
HostSong(env) ==
    /\ Len(add_song(env, service).service) <= MaxItems
    /\ service' = add_song(env, service).service
    /\ last' = [op |-> "add_song", emits |-> add_song(env, service).emits,
                payload |-> <<>>, resolved |-> NoLocator]
    /\ HostEmit(last'.emits)
    /\ UNCHANGED <<callerVars, sigCount, mainQueue, mainPc, mainCtx, convVars,
                   threadVars, live, other, theme_list, global_theme, service_theme, downloads,
                   superseded>>

\* The service slots.
HostNext ==
    \/ \E op \in Ops : \E loc \in HostLocatorsOf(op), fault \in BOOLEAN :
          HostService(op, loc, fault)
    \/ \E env \in SongEnvs : HostSong(env)

HostSpec == Init /\ [][HostNext]_vars

Next ==
    \/ \E op \in Ops : \E loc \in LocatorsOf(op), fault \in BOOLEAN : Submit(op, loc, fault)
    \/ \E item_index \in GoLiveIndexes, fault \in BOOLEAN : go_live_with_item(item_index, fault)
    \/ ToolWait
    \/ MainDispatch
    \/ MainStartAfterWait
    \/ on_conversion_completed
    \/ CompletedEmit
    \/ on_conversion_failed
    \/ MainCleanupAfterWait
    \/ \E j \in Ids : ThreadStarted(j)
    \/ \E j \in Ids : ThreadConverted(j)
    \/ \E j \in Ids : ThreadExit(j)
    \/ Tick

Spec == Init /\ [][Next]_vars

\* The server thread is scheduled and time passes.
FairSpec == Spec /\ WF_vars(Tick) /\ WF_vars(ToolWait)

(***************************************************************************)
(* Properties.                                                             *)
(***************************************************************************)
Submitted(i) == i < nextId

InQueue(i) ==
    \E k \in 1..Len(mainQueue) : mainQueue[k].t = "req" /\ mainQueue[k].id = i

\* The handler of call i has run to its end, its conversion job included.
Settled(i) ==
    /\ Submitted(i)
    /\ ~InQueue(i)
    /\ mainCtx.id # i
    /\ ~Pending(i)

TimedOut(i) == returned[i].kind \in {"Operation timed out", "Long operation timed out"}

\* C1: no handler signal for a tool call occurs between its hand-off to the
\* main thread's queue and the clear of the result channel (the clear comes
\* before the hand-off).
C1_ClearBeforeHandOff ==
    callerPc = "emitted" => sigCount[cur.id] = 0

\* C2: each tool call gets at most one signal of the result channel, and
\* exactly one once its handler path (the deferred conversion callback
\* included) has run to its end.
C2_ExactlyOneSignal ==
    \A i \in Ids :
        /\ sigCount[i] <= 1
        /\ Settled(i) => sigCount[i] = 1

\* A conversion call returned the one result its deferred callback signalled.
C2_Witness ==
    \E i \in Ids :
        /\ Settled(i)
        /\ thread[i] = "finished"
        /\ sigCount[i] = 1
        /\ returned[i].id = i

\* C3: a tool call never returns the result of another (timed-out) call.
C3_OwnResultAfterTimeout ==
    \A i \in Ids : returned[i].id \in {0, i}

\* C4: the callback of a job that was replaced while Running is ignored: it
\* adds nothing to the service and signals nothing.
C4_SingleFlight ==
    \A j \in superseded :
        /\ sigCount[j] = 0
        /\ \A k \in 1..Len(service) : service[k].id # j

\* C5: the main thread is never blocked in wait() on a conversion thread that
\* is still converting.
C5_MainNeverBlocked ==
    ~ /\ mainPc \in {"start_wait", "cleanup_wait"}
      /\ thread[conversion_thread] \in {"started", "converting"}

\* C6: every wait_for_result / wait_for_result_long ends: the tool call
\* returns a result or raises TimeoutError.
C6_BoundedWait ==
    \A i \in Ids : (cur.id = i) ~> (returned[i] # None)

\* A wait ended by TimeoutError although the handler never signalled.
C6_Witness ==
    \E i \in Ids : TimedOut(i) /\ sigCount[i] = 0 /\ InQueue(i)

\* A request whose handler meets a fault: a locator that does not resolve, or
\* a raising collaborator on a path that calls one (an unsupported extension
\* is answered without calling any).
Faulty(req) ==
    CASE req.op = "add_media" ->
            \/ Route(req.loc) = "raise"
            \/ req.fault /\ Route(req.loc) # "unsupported"
      [] req.op = "load_service" ->
            req.fault \/ resolve_file_path(req.loc).raised
      [] OTHER -> req.fault

\* C7: a handler that meets a fault signals an error result of its call, in
\* the step in which it runs; every conversion callback signals a result.
C7_FaultsBecomeResults ==
    [][ /\ ( /\ mainPc = "loop"
             /\ mainQueue # <<>>
             /\ mainQueue' = Tail(mainQueue)
             /\ mainPc' = "loop"
             /\ Head(mainQueue).t = "req"
             /\ Faulty(Head(mainQueue)) )
            => /\ result_ready'
               /\ current_result' = Result(Head(mainQueue).id, "error")
        /\ ( /\ mainPc = "start_wait"
             /\ mainPc' = "loop"
             /\ Faulty(mainCtx) )
            => /\ result_ready'
               /\ current_result' = Result(mainCtx.id, "error")
        /\ ( /\ mainPc = "loop"
             /\ mainQueue # <<>>
             /\ mainQueue' = Tail(mainQueue)
             /\ Head(mainQueue).t = "failed" )
            => /\ result_ready'
               /\ current_result' = Result(Head(mainQueue).id, "failed")
        /\ ( /\ mainPc = "emit"
             /\ mainPc' # "emit" )
            => /\ result_ready'
               /\ current_result'.id = mainCtx.id
               /\ current_result'.kind \in {"ok", "error"}
      ]_vars

\* The error result of a faulty call waits in the channel.
C7_Witness ==
    /\ result_ready
    /\ current_result.kind = "error"
    /\ cur.id = current_result.id
    /\ Faulty(Req(cur.id, cur.op, cur.loc, TRUE))

\* C8: when the failure of a conversion is signalled, the call that started
\* it has not run into its long timeout.
C8_FailureWithinLongTimeout ==
    \A j \in Ids :
        (result_ready /\ current_result = Result(j, "failed"))
            => returned[j] # TimeoutError("Long operation timed out")

\* C9: a tool call whose handler hands off to the conversion pipeline waits
\* with the long timeout.
C9_LongWaitForConversion ==
    (callerPc # "idle" /\ thread[cur.id] # "none") => cur.long

\* C10: at most one conversion thread is alive at any time.
C10_AtMostOneJob ==
    Cardinality({j \in Ids : isRunning(j)}) <= 1

\* A second job runs and the thread of the job it replaced has finished.
C10_Witness ==
    \E j \in superseded : \E k \in Ids :
        /\ thread[j] = "finished"
        /\ thread[k] = "converting"

\* C11: the add_media handler that hands off to the conversion pipeline
\* returns without signalling the result channel, unless starting the
\* conversion fails, which it signals as an error at once; the signal of a
\* call that was handed off comes only from its completion or failure
\* callback.
C11_DeferredSignal ==
    [][ /\ ( /\ mainPc = "loop"
             /\ mainQueue # <<>>
             /\ mainQueue' = Tail(mainQueue)
             /\ Head(mainQueue).t = "req"
             /\ Deferred(Head(mainQueue)) )
            => IF Head(mainQueue).fault /\ mainPc' = "loop"
               THEN /\ result_ready'
                    /\ current_result' = Result(Head(mainQueue).id, "error")
                    /\ thread'[Head(mainQueue).id] = "none"
               ELSE UNCHANGED channelVars
        /\ ( /\ mainPc = "start_wait"
             /\ mainPc' = "loop" )
            => IF mainCtx.fault
               THEN /\ result_ready'
                    /\ current_result' = Result(mainCtx.id, "error")
                    /\ thread'[mainCtx.id] = "none"
               ELSE /\ UNCHANGED channelVars
                    /\ thread'[mainCtx.id] = "started"
        /\ \A i \in Ids :
              (thread[i] # "none" /\ sigCount'[i] # sigCount[i])
                 => \/ mainPc = "emit" /\ mainCtx.id = i
                    \/ /\ mainPc = "loop"
                       /\ mainQueue # <<>>
                       /\ mainQueue' = Tail(mainQueue)
                       /\ Head(mainQueue) = Callback("failed", i, Head(mainQueue).title)
      ]_vars

\* The caller waits for a call whose conversion runs and nothing has been
\* signalled for it.
C11_Witness ==
    \E i \in Ids :
        /\ cur.id = i
        /\ callerPc = "waiting"
        /\ ~result_ready
        /\ thread[i] = "converting"
        /\ sigCount[i] = 0

\* C12: when the success result of a conversion is in the result channel, the
\* converted presentation is already an item of the service.
C12_AddedBeforeSignal ==
    \A j \in Ids :
        (result_ready /\ current_result = Result(j, "ok") /\ thread[j] # "none")
            => \E k \in 1..Len(service) :
                  service[k].id = j /\ service[k].kind = "presentation"

\* The caller has returned the success result of its conversion.
C12_Witness ==
    \E j \in Ids :
        /\ thread[j] # "none"
        /\ returned[j] = Result(j, "ok")
        /\ \E k \in 1..Len(service) : service[k].id = j

\* The conversion thread of call j ends convert_powerpoint in this step.
Converts(j) == thread[j] = "converting" /\ thread'[j] # "converting"

\* A PDF written for this job exists when convert_powerpoint emits: the one
\* of LibreOffice, or the one of python-pptx, which runs when LibreOffice left
\* none.
OutputExists(env) == env.lo = "ok" \/ env.py = "ok"

\* C13: a job whose LibreOffice is unavailable or exits non-zero falls back
\* to python-pptx and still queues exactly one callback, completed if the
\* fallback wrote its PDF and failed otherwise; when LibreOffice's PDF exists
\* the fallback is not used.
C13_FallbackOneSignal ==
    [][ \A j \in Ids :
          Converts(j) =>
             LET env == job[j].env
             IN  /\ Len(mainQueue') = Len(mainQueue) + 1
                 /\ mainQueue'[Len(mainQueue')].id = j
                 /\ env.lo \in {"missing", "nonzero"}
                      => /\ mainQueue'[Len(mainQueue')].t =
                               (IF env.py = "ok" THEN "completed" ELSE "failed")
                         /\ mainQueue'[Len(mainQueue')].pdf_path =
                               (IF env.py = "ok" THEN "python.pdf" ELSE "")
                 /\ convert_with_libreoffice(env) # "None"
                      => convert_ppt_to_pdf(env) = convert_with_libreoffice(env)
                 /\ convert_with_libreoffice(env) = "None"
                      => convert_ppt_to_pdf(env) = convert_with_python_pptx(env)
      ]_vars

\* The completed callback of a job that python-pptx converted, LibreOffice
\* having left no PDF, is waiting in the main thread's queue.
C13_Witness ==
    \E j \in Ids : \E k \in 1..Len(mainQueue) :
        /\ mainQueue[k].t = "completed"
        /\ mainQueue[k].id = j
        /\ mainQueue[k].pdf_path = "python.pdf"

\* C14: conversion_completed is emitted only when an output PDF exists; a
\* LibreOffice run that exits 0 and leaves no PDF is not a success by itself.
C14_OutputExistsIsSuccess ==
    [][ \A j \in Ids :
          Converts(j) =>
             /\ mainQueue'[Len(mainQueue')].t = "completed" <=> OutputExists(job[j].env)
             /\ (job[j].env.lo = "ok_nofile" /\ job[j].env.py # "ok")
                    => mainQueue'[Len(mainQueue')].t = "failed"
      ]_vars

\* conversion_completed has been emitted with the PDF LibreOffice wrote, and
\* the conversion thread is back in its event loop.
C14_Witness ==
    \E j \in Ids : \E k \in 1..Len(mainQueue) :
        /\ mainQueue[k].t = "completed"
        /\ mainQueue[k].id = j
        /\ mainQueue[k].pdf_path = "libreoffice.pdf"
        /\ thread[j] = "evloop"

\* C15: the main thread takes its events from the front of the queue, so a
\* request is handled before every request that was enqueued after it (calls
\* are numbered in the order of their emit).
C15_FifoDispatch ==
    [][ Len(mainQueue') < Len(mainQueue)
          => /\ mainQueue' = Tail(mainQueue)
             /\ \A k \in 2..Len(mainQueue) :
                   (Head(mainQueue).t = "req" /\ mainQueue[k].t = "req")
                      => Head(mainQueue).id < mainQueue[k].id
      ]_vars

\* Two requests of different operations are queued, the first not yet handled.
C15_Witness ==
    /\ Len(mainQueue) >= 2
    /\ mainQueue[1].t = "req"
    /\ mainQueue[2].t = "req"
    /\ mainQueue[1].op # mainQueue[2].op
    /\ mainPc = "loop"

\* C16: the service and the live item change only in a step in which the
\* main thread takes an event from its queue and runs its handler; no step of
\* the server thread or of a conversion thread changes them, and no handler
\* starts while another one is in progress.
C16_MutatedOnMainThreadOnly ==
    [][ /\ (service' # service \/ live' # live)
            => /\ mainPc = "loop"
               /\ mainQueue # <<>>
               /\ mainQueue' = Tail(mainQueue)
        /\ mainPc # "loop" => Len(mainQueue') >= Len(mainQueue)
      ]_vars

\* The completion handler has added the converted presentation and has not
\* emitted yet, the caller waits and a request is queued behind the handler.
C16_Witness ==
    /\ mainPc = "emit"
    /\ \E k \in 1..Len(service) : service[k].id = mainCtx.id
    /\ mainQueue # <<>>
    /\ callerPc = "waiting"

\* C17: the result channel has one slot and the last writer wins: every
\* signal replaces the stored result, consumed or not, and a caller that
\* returns gets whatever the slot holds then.  With two server threads a
\* caller can so return the result of the other thread's call.
C17_LastWriterWins ==
    [][ \A i \in Ids :
          /\ sigCount'[i] > sigCount[i]
               => result_ready' /\ current_result'.id = i
          /\ (returned'[i] # returned[i] /\ ~TimedOut(i)')
               => returned'[i] = current_result
      ]_vars

\* A call has returned the result of another call that is still in progress
\* on the other server thread.
C17_Witness ==
    \E i, j \in Ids :
        /\ i # j
        /\ returned[i] = Result(j, returned[i].kind)
        /\ (other.cur.id = j \/ cur.id = j)
        /\ sigCount[i] = 1

\* C18: the wait of wait_for_result / wait_for_result_long changes neither
\* current_result nor the flag of result_ready, whether it ends with a result
\* or with a timeout; the two change only in the clear at the start of a wait
\* (the flag) and in a signal.
C18_AwaitDoesNotMutate ==
    [][ /\ (callerPc = "waiting" /\ callerPc' # "waiting")
            => UNCHANGED <<current_result, result_ready>>
        /\ (current_result' # current_result \/ result_ready' # result_ready)
            => \/ /\ callerPc = "emitted"
                  /\ callerPc' = "waiting"
                  /\ ~result_ready'
                  /\ current_result' = current_result
               \/ /\ \E i \in Ids : sigCount'[i] > sigCount[i]
                  /\ result_ready'
      ]_vars

\* A call has returned its result, and the result is still stored and
\* signalled in the channel.
C18_Witness ==
    \E i \in Ids :
        /\ callerPc = "idle"
        /\ returned[i] = current_result
        /\ returned[i].id = i
        /\ result_ready

\* C19: the pipeline is Idle (no conversion_thread, no conversion_worker)
\* once the handler of a completion or failure callback has ended, it is Idle
\* only when no conversion thread is running, and a job requested while it is
\* Idle starts at once.
C19_PipelineStateMachine ==
    /\ [](conversion_thread = 0 =>
              /\ conversion_worker = 0
              /\ \A j \in Ids : ~isRunning(j))
    /\ [][ /\ ( /\ mainPc' = "loop"
                /\ \/ mainPc \in {"emit", "cleanup_wait"}
                   \/ /\ mainPc = "loop"
                      /\ mainQueue # <<>>
                      /\ mainQueue' = Tail(mainQueue)
                      /\ Head(mainQueue).t = "failed" )
               => conversion_thread' = 0 /\ conversion_worker' = 0
           /\ ( /\ mainPc = "loop"
                /\ conversion_thread = 0
                /\ mainQueue # <<>>
                /\ mainQueue' = Tail(mainQueue)
                /\ Head(mainQueue).t = "req"
                /\ Deferred(Head(mainQueue))
                /\ ~Head(mainQueue).fault )
               => /\ conversion_thread' = Head(mainQueue).id
                  /\ thread'[Head(mainQueue).id] = "started"
                  /\ mainPc' = "loop"
         ]_vars

\* A job has run to its end and its callback has been handled, and the next
\* job, started from Idle, is running.
C19_Witness ==
    \E j, k \in Ids :
        /\ thread[j] = "finished"
        /\ j \notin superseded
        /\ sigCount[j] = 1
        /\ conversion_thread = k
        /\ thread[k] = "converting"

\* C20: go_live with an index outside the service signals an error result
\* and leaves the live item as it was; it signals success only when the item
\* at the index has been made live.
C20_GoLiveInvalidIndex ==
    [][ ( /\ mainPc = "loop"
          /\ mainQueue # <<>>
          /\ mainQueue' = Tail(mainQueue)
          /\ Head(mainQueue).t = "req"
          /\ Head(mainQueue).op = "go_live" )
         => LET req == Head(mainQueue)
                valid == req.index >= 0 /\ req.index < Len(service)
            IN  /\ ~valid => /\ current_result' = Result(req.id, "error")
                             /\ live' = live
                /\ current_result' = Result(req.id, "ok")
                      => valid /\ live' = req.index + 1
      ]_vars

\* C21: delete_theme on 'Default', on the global theme or on a name that is
\* not a theme emits one refusal and leaves the themes as they were; no slot
\* removes 'Default' or the global theme from the themes.
C21_DeleteThemeGuards ==
    [][ /\ \A req \in ThemeReqs("delete_theme") :
              ( /\ last'.op = req.op
                /\ HostTheme(req)
                /\ \/ req.theme_name \in {"Default", global_theme}
                   \/ req.theme_name \notin theme_list )
              => /\ theme_list' = theme_list
                 /\ last'.emits \in { <<"not found">>, <<"Cannot delete the default theme">>,
                                      <<"Cannot delete the global theme">> }
        /\ "Default" \in theme_list => "Default" \in theme_list'
        /\ global_theme \in theme_list => global_theme' \in theme_list' ]_vars

C21_Witness ==
    /\ last.op = "delete_theme"
    /\ last.emits = <<"Cannot delete the global theme">>
    /\ global_theme # "Default"
    /\ global_theme \in theme_list
    /\ theme_list # InitialThemes

\* C22: create_theme on an existing name, get_theme_details and update_theme
\* on a name that is not a theme, and duplicate_theme with a missing source
\* or an existing target emit one descriptive error and leave the themes as
\* they were; a successful create_theme or duplicate_theme adds exactly the
\* theme it names.
C22_ThemePreconditions ==
    [][ \A op \in ThemeOps : \A req \in ThemeReqs(op) :
          (last'.op = op /\ HostTheme(req)) =>
            LET refused(message) == last'.emits = <<message>> /\ theme_list' = theme_list
            IN  /\ (op = "create_theme" /\ req.theme_name \in theme_list)
                      => refused("already exists")
                /\ (op \in {"get_theme_details", "update_theme"}
                      /\ req.theme_name \notin theme_list /\ ~req.fault)
                      => refused("not found")
                /\ (op = "duplicate_theme" /\ req.theme_name \notin theme_list)
                      => refused("Source theme not found")
                /\ (op = "duplicate_theme" /\ req.theme_name \in theme_list
                      /\ req.new_theme_name \in theme_list)
                      => refused("already exists")
                /\ (op = "create_theme" /\ last'.emits = <<"created">>)
                      => theme_list' = theme_list \cup {req.theme_name}
                /\ (op = "duplicate_theme" /\ last'.emits = <<"duplicated">>)
                      => theme_list' = theme_list \cup {req.new_theme_name} ]_vars

\* C23: set_item_theme changes the theme of the item at the index, and of no
\* other item, and only for an index inside the service and a name that is a
\* theme or asks for clearing; an index outside emits 'Invalid item index',
\* a name that is no theme emits 'not found', and both leave every item as
\* it was.  An empty name and 'none' in any case clear the item's theme, and
\* clear_item_theme does and emits what set_item_theme(index, 'none') does.
C23_ItemTheme ==
    [][ /\ \A req \in ItemReqs("set_item_theme") :
              (last'.op = req.op /\ HostItemTheme(req)) =>
                LET valid == req.index >= 0 /\ req.index < Len(service)
                    clears == req.theme_name \in {"", "none", "NONE"}
                IN  /\ ~valid => last'.emits = <<"Invalid item index">> /\ service' = service
                    /\ (valid /\ ~clears /\ req.theme_name \notin theme_list)
                          => last'.emits = <<"not found">> /\ service' = service
                    /\ (valid /\ clears /\ ~req.fault)
                          => /\ service'[req.index + 1].theme = NoTheme
                             /\ last'.emits = <<"theme cleared">>
                    /\ (valid /\ ~clears /\ req.theme_name \in theme_list /\ ~req.fault)
                          => /\ service'[req.index + 1].theme = req.theme_name
                             /\ last'.emits = <<"theme set">>
                    /\ Len(service') = Len(service)
                    /\ \A k \in 1..Len(service) :
                          service'[k] # service[k] =>
                            /\ k = req.index + 1
                            /\ service'[k] = [service[k] EXCEPT !.theme = service'[k].theme]
        /\ \A req \in ItemReqs("clear_item_theme") :
              (last'.op = req.op /\ HostItemTheme(req)) =>
                LET same == set_item_theme(ItemReq("set_item_theme", req.index, "none",
                                                   req.fault), service, theme_list)
                IN  service' = same.service /\ last'.emits = same.emits ]_vars

C23_Witness ==
    /\ last.op = "clear_item_theme"
    /\ last.emits = <<"theme cleared">>
    /\ Len(service) = 2
    /\ service[1].theme = "Blue"
    /\ service[2].theme = NoTheme

\* C24: the step that runs add_media on a file that resolves, with no
\* collaborator fault, appends exactly one image item for an image
\* extension in any case, one media item for a video or audio extension,
\* one presentation item for .pdf and .odp; for a PowerPoint extension it
\* starts (or waits to start) the conversion and adds nothing yet; for any
\* other extension it signals 'Unsupported format' and adds nothing.
C24_AddMediaRouting ==
    [][ ( /\ mainPc = "loop"
          /\ mainQueue # <<>>
          /\ Head(mainQueue).t = "req"
          /\ Head(mainQueue).op = "add_media"
          /\ mainQueue' = Tail(mainQueue) )
        => LET req == Head(mainQueue)
               resolved == resolve_file_path(req.loc)
               extension == lower(resolved.path.ext)
               added(kind) == service' = Append(service, Item(req.id, kind, req.id))
           IN  /\ Len(service') <= Len(service) + 1
               /\ (~resolved.raised /\ ~req.fault) =>
                    CASE extension \in image_extensions -> added("image")
                      [] extension \in video_extensions \cup audio_extensions -> added("media")
                      [] extension \in {".pdf", ".odp"} -> added("presentation")
                      [] extension \in {".pptx", ".ppt", ".pps", ".ppsx"} ->
                            /\ service' = service
                            /\ thread'[req.id] = "started" \/ mainPc' = "start_wait"
                      [] OTHER ->
                            /\ service' = service
                            /\ current_result' = Result(req.id, "unsupported") ]_vars

C24_Witness ==
    /\ cur.op = "add_media"
    /\ cur.loc.ext = ".JPG"
    /\ Len(service) = 2
    /\ service[1].kind = "presentation"
    /\ service[2] = Item(cur.id, "image", cur.id)

\* C25: when the file_path of load_service or add_media does not resolve
\* (empty string, missing local file, failed download), the step that runs
\* the slot signals one error result, leaves the service, the download
\* directory and the conversion thread as they were, and the call is
\* signalled no second time.
C25_ResolutionFault ==
    [][ /\ ( /\ mainPc = "loop"
             /\ mainQueue # <<>>
             /\ Head(mainQueue).t = "req"
             /\ Head(mainQueue).op \in {"load_service", "add_media"}
             /\ resolve_file_path(Head(mainQueue).loc).raised
             /\ mainQueue' = Tail(mainQueue) )
           => LET req == Head(mainQueue)
              IN  /\ service' = service
                  /\ downloads' = downloads
                  /\ current_result' = Result(req.id, "error")
                  /\ result_ready'
                  /\ sigCount[req.id] = 0
                  /\ sigCount' = [sigCount EXCEPT ![req.id] = 1]
                  /\ UNCHANGED <<convVars, thread>>
        /\ ( /\ cur.op \in {"load_service", "add_media"}
             /\ resolve_file_path(cur.loc).raised )
           => sigCount[cur.id] <= 1 /\ ~Pending(cur.id) ]_vars

C25_Witness ==
    /\ cur.op = "add_media"
    /\ cur.loc = NoLocator
    /\ sigCount[cur.id] = 1
    /\ current_result = Result(cur.id, "error")
    /\ service # <<>>

\* C26: add_media on a path that is not a URL and exists (a caller's file or
\* a file of the download directory) resolves it to the very same path and
\* downloads nothing, and resolving the resolved path again gives it again.
C26_ResolveLocalIdempotent ==
    [][ \A p \in UrlLocators \cup downloads, fault \in BOOLEAN :
          ( /\ last'.op = "add_media"
            /\ HostService("add_media", p, fault)
            /\ p # NoLocator
            /\ p.scheme \notin {"http", "https", "ftp", "ftps"}
            /\ p.present )
          => /\ last'.resolved = p
             /\ downloads' = downloads
             /\ resolve_file_path(last'.resolved) =
                   [raised |-> FALSE, path |-> last'.resolved, fetched |-> FALSE] ]_vars

C26_Witness ==
    /\ last.op = "add_media"
    /\ last.resolved = Loc("", "file", ".JPG", FALSE, "", TRUE)
    /\ last.emits = <<"ok">>
    /\ downloads # {}

\* C27: add_media on a URL that can be fetched and whose path has no
\* extension stores the copy under the extension of the probed content type
\* (.jpg for image/jpeg), and under the one guessed from the URL only when
\* the content type is missing or not mapped; a URL path with an extension
\* keeps its file name; the item added is the one for that extension.
C27_UrlFileName ==
    [][ \A p \in UrlLocators, fault \in BOOLEAN :
          ( /\ last'.op = "add_media"
            /\ HostService("add_media", p, fault)
            /\ p.scheme \in {"http", "https", "ftp", "ftps"}
            /\ p.present )
          => LET copy == last'.resolved
                 probed == get_extension_from_content_type(p.ctype)
                 added(kind) == service' = Append(service, Item(Len(service) + 1, kind,
                                                                Len(service) + 1))
             IN  /\ copy.dir = "openlp_mcp_downloads"
                 /\ copy \in downloads'
                 /\ p.ext # "" => copy.stem = p.stem /\ copy.ext = p.ext
                 /\ (p.ext = "" /\ p.ctype \in {"image/jpeg", "image/jpeg; charset=binary"})
                       => copy.ext = ".jpg"
                 /\ (p.ext = "" /\ probed # ".tmp") => copy.ext = probed
                 /\ (p.ext = "" /\ probed = ".tmp")
                       => copy.ext = guess_extension_from_url_patterns(p)
                 /\ (p.ext = "" /\ p.stem # "") => copy.stem = p.stem
                 /\ ~fault =>
                       CASE copy.ext \in image_extensions -> added("image")
                         [] copy.ext \in video_extensions \cup audio_extensions -> added("media")
                         [] OTHER -> service' = service /\ last'.emits = <<"unsupported">>
        ]_vars

C27_Witness ==
    /\ last.op = "add_media"
    /\ last.resolved = DownloadPath([stem |-> "photo", ext |-> ".jpg"])
    /\ last.emits = <<"ok">>
    /\ service # <<>>
    /\ service[Len(service)].kind = "image"
    /\ last.resolved \in downloads

C29_OneSongItem ==
    [][ \A env \in SongEnvs :
          (last'.op = "add_song" /\ HostSong(env))
          => LET n == Len(service) + 1
             IN  /\ Len(last'.emits) = 1
                 /\ last'.emits[1] \in {"error", "Songs plugin not available"}
                       => service' = service
                 /\ (env.plugin = "active" /\ last'.emits[1] # "error")
                       => \/ /\ env.lookup = "found" /\ env.generate = "ok"
                             /\ service' = Append(service, Item(n, "song", n))
                          \/ service' = Append(service, Item(n, "placeholder", n)) ]_vars

\* C28: get_service_items emits one record per item of the service as it is
\* at the call, in the order of the service, and leaves the service alone;
\* run right after create_service it emits the empty list.
C28_ListItemsFresh ==
    [][ ( /\ last'.op = "get_service_items"
          /\ HostService("get_service_items", NoLocator, FALSE) )
        => /\ last'.emits = <<"items">>
           /\ service' = service
           /\ Len(last'.payload) = Len(service)
           /\ \A k \in 1..Len(service) :
                 /\ last'.payload[k].title = service[k].title
                 /\ last'.payload[k].plugin = service[k].kind
                 /\ last'.payload[k].order = k
           /\ (last.op = "create_service" /\ last.emits = <<"ok">>)
                 => last'.payload = <<>> ]_vars

C28_Witness ==
    /\ last.op = "get_service_items"
    /\ last.emits = <<"items">>
    /\ Len(service) = 2
    /\ Len(last.payload) = 2
    /\ last.payload[1].plugin = "image"
    /\ last.payload[2].plugin = "song"

\* C31: a tool call whose handler has signalled its result before the wait
\* ran out returns that result: no wait ends by TimeoutError for a call that
\* has been signalled.
C31_NoLostWakeUp ==
    [][ ( /\ callerPc = "waiting"
          /\ callerPc' = "idle"
          /\ returned'[cur.id].kind \in {"Operation timed out", "Long operation timed out"} )
        => sigCount[cur.id] = 0 ]_vars

\* C32: the clear at the start of a wait empties the result slot as well as
\* un-signalling the event: after it the slot no longer holds the result of
\* the previous cycle.
C32_ClearEmptiesSlot ==
    [][ (callerPc = "emitted" /\ callerPc' = "waiting")
        => (~result_ready' /\ current_result' = None) ]_vars

\* C33: the cleanup run by the completion or failure callback of a job acts
\* on that job's own thread and worker only: it never quits, waits on or
\* forgets the thread of another job.
C33_CleanupOwnJob ==
    [][ LET cb == IF mainPc = "emit" THEN mainCtx.id
                  ELSE IF mainPc = "loop" /\ mainQueue # <<>>
                          /\ Head(mainQueue).t = "failed"
                       THEN Head(mainQueue).id
                       ELSE 0
        IN  \A k \in Ids :
               (cb # 0 /\ cb # k)
               => /\ quitReq'[k] = quitReq[k]
                  /\ (conversion_thread = k => conversion_thread' = k)
                  /\ ~(mainPc' = "cleanup_wait" /\ conversion_thread' = k) ]_vars

\* C34: every started conversion job emits exactly one of
\* conversion_completed and conversion_failed, whatever LibreOffice and the
\* python-pptx fallback did: the step that ends convert_powerpoint queues one
\* callback of the job, conversion_completed exactly when a PDF came back,
\* no other step queues one, and a job runs convert_powerpoint once.
C34_OneOutcomeSignal ==
    [][ \A j \in Ids :
          LET n(q) == Cardinality({k \in 1..Len(q) :
                                      q[k].id = j /\ q[k].t \in {"completed", "failed"}})
              ends == thread[j] = "converting" /\ thread'[j] # "converting"
          IN  /\ ends => /\ n(mainQueue') = n(mainQueue) + 1
                         /\ thread'[j] \in {"evloop", "finished"}
                         /\ mainQueue'[Len(mainQueue')].t =
                               (IF convert_ppt_to_pdf(job[j].env) # "None"
                                THEN "completed" ELSE "failed")
              /\ n(mainQueue') > n(mainQueue) => ends
              /\ thread'[j] = "converting" => thread[j] \in {"started", "converting"}
              /\ thread'[j] = "started" => thread[j] \in {"none", "started"} ]_vars

\* A failed job and a completed job have each queued their one callback.
C34_Witness ==
    \E k1, k2 \in 1..Len(mainQueue) :
        /\ mainQueue[k1].t = "failed"
        /\ mainQueue[k2].t = "completed"
        /\ mainQueue[k1].id # mainQueue[k2].id

C35_UpdateThemeFrame ==
    [][ \A req \in ThemeReqs("update_theme") :
          (last'.op = "update_theme" /\ req.updates # "theme_name" /\ HostTheme(req)) =>
            LET saved == last'.emits = <<"updated">>
                valid == req.updates = "font_main_size" \/ req.image # NoLocator
            IN  /\ theme_list' \ {req.theme_name} = theme_list \ {req.theme_name}
                /\ saved => req.theme_name \in theme_list
                /\ ~valid => (~saved /\ theme_list' = theme_list)
                /\ (req.image # NoLocator /\ resolve_file_path(req.image).raised)
                      => (~saved /\ theme_list' = theme_list) ]_vars

\* C36: the service theme and every per-item theme that is set name a theme
\* of the theme store.
C36_ThemeReferencesValid ==
    /\ service_theme \in theme_list
    /\ \A k \in 1..Len(service) :
          service[k].theme # NoTheme => service[k].theme \in theme_list

====
